---- MODULE Spec2Model ----
(***************************************************************************)
(* A model of Vector<T> (src/vector.hpp): an owned buffer `entries`        *)
(* (std::unique_ptr<T[]>) with a tracked logical size `size_`.             *)
(*                                                                         *)
(* Buffers are sequences; slot i of the C++ array is element i + 1 of the  *)
(* sequence.  A pointer is a record [addr, data]: addr 0 is the null       *)
(* pointer, any other addr names a live allocation whose array is data.    *)
(* T is a numeric type; its values are small naturals, and the results of  *)
(* a division are kept exact as a fraction [num, den].                     *)
(***************************************************************************)
EXTENDS Integers, Sequences, FiniteSets

VARIABLES
    vecs,    \* the Vector objects: [alive, size_, entries]
    call,    \* the last call made: its name, its receiver, its arguments
    ret,     \* what that call returned or threw
    pre,     \* vecs as it was when that call was made
    hazard,  \* that call's shift read a slot it had already written
    rt       \* set when erase(pos) has just undone the insert(pos, x) before it

vars == <<vecs, call, ret, pre, hazard, rt>>

\* ------------------------------------------------------------------ bounds
\* Longest element sequence of a vector.
MaxLen == 4
\* Largest count of insert(pos, count, value) and longest inserted range.
MaxCount == 2
\* Addresses the allocator hands out are 1..NumAddr.
NumAddr == 3

\* Longest vector of the two-object runs.
MaxPair == 2

\* T(): the value-initialised element.
DefaultT == 0

\* The element values: T() and two more, so that three elements can differ.
Values == {DefaultT, 1, 2}

\* The values the structural edits insert or fill with: T() and one other.
InsValues == {DefaultT, 1}

VecIds == {"v", "w"}
Addrs == 1..NumAddr

\* std::min
StdMin(a, b) == IF a < b THEN a ELSE b

SeqsUpTo(n, vals) == UNION {[1..k -> vals] : k \in 0..n}

\* ---------------------------------------------------------------- pointers
\* An empty std::unique_ptr<T[]>.
NullPtr == [addr |-> 0, data |-> << >>]

\* A declared but not yet constructed Vector object.
NoObj == [alive |-> FALSE, size_ |-> 0, entries |-> NullPtr]

LiveAddrs(vs) == {vs[id].entries.addr : id \in VecIds} \ {0}

\* std::make_unique<T[]>(n): a fresh allocation, distinct from every live
\* one, of n value-initialised elements.
MakeUnique(n, live) ==
    [addr |-> CHOOSE a \in Addrs \ live : \A b \in Addrs \ live : a <= b,
     data |-> [i \in 1..n |-> DefaultT]]

\* Vector::size()
Size(x) == x.size_

\* The element sequence of a vector whose buffer holds size_ elements.
Elems(x) == SubSeq(x.entries.data, 1, x.size_)

\* The buffer holds at least size_ slots (what every read of
\* [entries, entries + size_) relies on).
Backed(x) == x.size_ <= Len(x.entries.data)

\* ------------------------------------------------------- <algorithm> loops
Slot(buf, i) == buf[i + 1]
Put(buf, i, x) == [buf EXCEPT ![i + 1] = x]

\* std::copy(src + first, src + last, dst + dFirst), src and dst distinct.
RECURSIVE StdCopy(_, _, _, _, _)
StdCopy(src, first, last, dst, dFirst) ==
    IF first >= last THEN dst
    ELSE StdCopy(src, first + 1, last, Put(dst, dFirst, Slot(src, first)), dFirst + 1)

\* std::fill(buf + first, buf + last, x)
RECURSIVE StdFill(_, _, _, _)
StdFill(buf, first, last, x) ==
    IF first >= last THEN buf
    ELSE StdFill(Put(buf, first, x), first + 1, last, x)

\* A shift in progress: the buffer, the slots written so far, and whether a
\* slot was read after it had been written.
ShiftStart(buf) == [buf |-> buf, written |-> {}, hazard |-> FALSE]

ShiftStep(st, from, to) ==
    [buf |-> Put(st.buf, to, Slot(st.buf, from)),
     written |-> st.written \cup {to},
     hazard |-> st.hazard \/ from \in st.written]

\* std::move(buf + first, buf + last, buf + dFirst) within one buffer:
\* front to back.
RECURSIVE StdMove(_, _, _, _)
StdMove(st, first, last, dFirst) ==
    IF first >= last THEN st
    ELSE StdMove(ShiftStep(st, first, dFirst), first + 1, last, dFirst + 1)

\* A shift to the right done front to back (what std::move_backward avoids).
MoveBackwardAsForward(st, first, last, dLast) ==
    StdMove(st, first, last, dLast - (last - first))

\* std::move_backward(buf + first, buf + last, buf + dLast) within one
\* buffer: back to front.
RECURSIVE StdMoveBackward(_, _, _, _)
StdMoveBackward(st, first, last, dLast) ==
    IF first >= last THEN st
    ELSE StdMoveBackward(ShiftStep(st, last - 1, dLast - 1), first, last - 1, dLast - 1)

\* ------------------------------------------------------------ the results
Void == [kind |-> "void"]
Throw(what) == [kind |-> "throw", what |-> what]
Value(v) == [kind |-> "value", val |-> v]
\* The process was ended by a read outside every allocation.
Crash == [kind |-> "crash"]

\* ------------------------------------------------------------- Vector<T>
\* Vector(std::size_t size)
SizedVector(size, live) ==
    [alive |-> TRUE, size_ |-> size, entries |-> MakeUnique(size, live)]

\* Vector::clear()
Clear(x) == [x EXCEPT !.size_ = 0, !.entries = NullPtr]

\* Vector::resize(size, default_value).  allocOk: std::make_unique returned
\* (it throws std::bad_alloc otherwise).
Resize(x, size, default_value, allocOk, live) ==
    IF size = x.size_ THEN [vec |-> x, thrown |-> FALSE]
    ELSE IF ~allocOk THEN [vec |-> x, thrown |-> TRUE]
    ELSE LET new_entries == MakeUnique(size, live)
             copy_size == StdMin(x.size_, size)
             copied == StdCopy(x.entries.data, 0, copy_size, new_entries.data, 0)
             filled == StdFill(copied, copy_size, size, default_value)
         IN [vec |-> [x EXCEPT !.entries = [addr |-> new_entries.addr, data |-> filled],
                               !.size_ = size],
             thrown |-> FALSE]

\* What a structural edit leaves: the vector, whether it threw, and whether
\* its shift read a slot it had already written.
Done(x, hz) == [vec |-> x, ret |-> Void, hazard |-> hz]
Failed(x, what, hz) == [vec |-> x, ret |-> Throw(what), hazard |-> hz]

\* Vector::insert(pos, count, value); insert(pos, value) is count = 1 with
\* the fill replaced by one assignment.
InsertCount(x, pos, count, value, allocOk, live) ==
    IF pos > Size(x) THEN Failed(x, "out_of_range", FALSE)
    ELSE LET r == Resize(x, x.size_ + count, DefaultT, allocOk, live)
         IN IF r.thrown THEN Failed(r.vec, "bad_alloc", FALSE)
            ELSE LET y == r.vec
                     sh == StdMoveBackward(ShiftStart(y.entries.data),
                                           pos, y.size_ - count, y.size_)
                     filled == StdFill(sh.buf, pos, pos + count, value)
                 IN Done([y EXCEPT !.entries.data = filled], sh.hazard)

\* Vector::insert(pos, value)
InsertOne(x, pos, value, allocOk, live) ==
    IF pos > Size(x) THEN Failed(x, "out_of_range", FALSE)
    ELSE LET r == Resize(x, x.size_ + 1, DefaultT, allocOk, live)
         IN IF r.thrown THEN Failed(r.vec, "bad_alloc", FALSE)
            ELSE LET y == r.vec
                     sh == StdMoveBackward(ShiftStart(y.entries.data),
                                           pos, y.size_ - 1, y.size_)
                 IN Done([y EXCEPT !.entries.data = Put(sh.buf, pos, value)], sh.hazard)

\* Vector::insert(pos, first, last), [first, last) an array outside the
\* vector holding the values src; insert(pos, initializer_list) forwards here.
InsertRange(x, pos, src, allocOk, live) ==
    IF pos > Size(x) THEN Failed(x, "out_of_range", FALSE)
    ELSE LET count == Len(src)
             r == Resize(x, x.size_ + count, DefaultT, allocOk, live)
         IN IF r.thrown THEN Failed(r.vec, "bad_alloc", FALSE)
            ELSE LET y == r.vec
                     sh == StdMoveBackward(ShiftStart(y.entries.data),
                                           pos, y.size_ - count, y.size_)
                     copied == StdCopy(src, 0, count, sh.buf, pos)
                 IN Done([y EXCEPT !.entries.data = copied], sh.hazard)

\* An erase that shrinks without closing the gap.
EraseAtNoShift(x, pos, allocOk, live) ==
    IF pos >= Size(x) THEN Failed(x, "out_of_range", FALSE)
    ELSE LET r == Resize(x, Size(x) - 1, DefaultT, allocOk, live)
         IN IF r.thrown THEN Failed(r.vec, "bad_alloc", FALSE) ELSE Done(r.vec, FALSE)

\* Vector::erase(pos)
EraseAt(x, pos, allocOk, live) ==
    IF pos >= Size(x) THEN Failed(x, "out_of_range", FALSE)
    ELSE LET sh == StdMove(ShiftStart(x.entries.data), pos + 1, x.size_, pos)
             y == [x EXCEPT !.entries.data = sh.buf]
             r == Resize(y, Size(y) - 1, DefaultT, allocOk, live)
         IN IF r.thrown THEN Failed(r.vec, "bad_alloc", sh.hazard)
            ELSE Done(r.vec, sh.hazard)

\* Vector::erase(first, last).  The source calls resize with the new size
\* alone; fill stands for the second argument the call needs (T(), as in
\* erase(pos)), which a shrinking resize never uses.
EraseRange(x, first, last, fill, allocOk, live) ==
    IF first >= Size(x) \/ last > Size(x) \/ first >= last
    THEN Failed(x, "out_of_range", FALSE)
    ELSE LET sh == StdMove(ShiftStart(x.entries.data), last, Size(x), first)
             y == [x EXCEPT !.entries.data = sh.buf]
             r == Resize(y, Size(y) - (last - first), fill, allocOk, live)
         IN IF r.thrown THEN Failed(r.vec, "bad_alloc", sh.hazard)
            ELSE Done(r.vec, sh.hazard)

\* ------------------------------------------------------------ the queries
\* The exact quotient num / den.
Frac(num, den) == [num |-> num, den |-> den]

\* std::accumulate(buf, buf + n, acc), with + and with *.
RECURSIVE AccumulatePlus(_, _, _, _)
AccumulatePlus(buf, i, n, acc) ==
    IF i >= n THEN acc ELSE AccumulatePlus(buf, i + 1, n, acc + Slot(buf, i))

RECURSIVE AccumulateTimes(_, _, _, _)
AccumulateTimes(buf, i, n, acc) ==
    IF i >= n THEN acc ELSE AccumulateTimes(buf, i + 1, n, acc * Slot(buf, i))

\* std::inner_product(a, a + n, b, acc)
RECURSIVE InnerProduct(_, _, _, _, _)
InnerProduct(a, i, n, b, acc) ==
    IF i >= n THEN acc
    ELSE InnerProduct(a, i + 1, n, b, acc + Slot(a, i) * Slot(b, i))

\* Vector::sum(), Vector::product()
Sum(x) == AccumulatePlus(x.entries.data, 0, Size(x), DefaultT)
Product(x) == AccumulateTimes(x.entries.data, 0, Size(x), 1)

\* Vector::mean()
Mean(x) ==
    IF x.size_ = 0 THEN Throw("logic_error") ELSE Value(Frac(Sum(x), x.size_))

\* dot_product(u, v)
DotProduct(u, v) ==
    IF Size(u) # Size(v) THEN Throw("invalid_argument")
    ELSE Value(InnerProduct(u.entries.data, 0, Size(u), v.entries.data, DefaultT))

\* Vector::magnitude(): the square root of dot_product(*this, *this).
Magnitude(x) == [kind |-> "sqrt", of |-> DotProduct(x, x).val]

\* std::max_element(buf, buf + n): the first largest; n when the range is
\* empty.
RECURSIVE MaxScan(_, _, _, _)
MaxScan(buf, i, n, largest) ==
    IF i >= n THEN largest
    ELSE MaxScan(buf, i + 1, n, IF Slot(buf, largest) < Slot(buf, i) THEN i ELSE largest)

MaxElement(buf, n) == IF n = 0 THEN n ELSE MaxScan(buf, 1, n, 0)

\* std::min_element(buf, buf + n): the first smallest.
RECURSIVE MinScan(_, _, _, _)
MinScan(buf, i, n, smallest) ==
    IF i >= n THEN smallest
    ELSE MinScan(buf, i + 1, n, IF Slot(buf, i) < Slot(buf, smallest) THEN i ELSE smallest)

MinElement(buf, n) == IF n = 0 THEN n ELSE MinScan(buf, 1, n, 0)

\* A count that stops one slot short of the end.
RECURSIVE CountButLast(_, _, _, _)
CountButLast(buf, i, n, value) ==
    IF i >= n - 1 THEN 0
    ELSE (IF Slot(buf, i) = value THEN 1 ELSE 0) + CountButLast(buf, i + 1, n, value)

\* std::count(buf + i, buf + n, value)
RECURSIVE Count(_, _, _, _)
Count(buf, i, n, value) ==
    IF i >= n THEN 0
    ELSE (IF Slot(buf, i) = value THEN 1 ELSE 0) + Count(buf, i + 1, n, value)

\* The loop of max() and min() that collects the positions holding value.
RECURSIVE Indexes(_, _, _, _, _)
Indexes(buf, i, n, value, indexes) ==
    IF i >= n THEN indexes
    ELSE Indexes(buf, i + 1, n, value,
                 IF Slot(buf, i) = value THEN Append(indexes, i) ELSE indexes)

\* The two alternatives of std::variant<T, std::vector<std::size_t>>.
Single(v) == [kind |-> "single", val |-> v]
Ties(indexes) == [kind |-> "ties", idx |-> indexes]

\* What max() and min() return once the scan has stopped at slot it, of a
\* vector with at least one element.
Extremum(x, it) ==
    LET buf == x.entries.data
    IN IF Count(buf, 0, x.size_, Slot(buf, it)) = 1 THEN Single(it)
       ELSE Ties(Indexes(buf, 0, x.size_, Slot(buf, it), << >>))

\* Vector::max(), Vector::min() on a vector with at least one element.
Max(x) == Extremum(x, MaxElement(x.entries.data, x.size_))
Min(x) == Extremum(x, MinElement(x.entries.data, x.size_))

\* The permutations of 1..n, for every n up to MaxLen.
Perms == [n \in 0..MaxLen |->
             {p \in [1..n -> 1..n] : \A i, j \in 1..n : i # j => p[i] # p[j]}]

\* std::nth_element(buf, buf + nth, buf + n): every arrangement it may leave,
\* that is every reordering in which slot nth holds the element sorting
\* would put there: no element from nth on is less than it or than an
\* element before nth.
NthElement(buf, nth, n) ==
    {a \in {[i \in 1..n |-> buf[p[i]]] : p \in Perms[n]} :
        /\ \A j \in nth..(n - 1) : ~(Slot(a, j) < Slot(a, nth))
        /\ \A i \in 0..(nth - 1), j \in nth..(n - 1) : ~(Slot(a, j) < Slot(a, i))}

\* What median() returns from the buffer nth_element left.
MedianOf(buf, n) ==
    LET middle_idx == n \div 2
    IN IF n % 2 = 1 THEN Frac(Slot(buf, middle_idx), 1)
       ELSE Frac(Slot(buf, middle_idx - 1) + Slot(buf, middle_idx), 2)

\* std::lexicographical_compare(a, a + na, b, b + nb)
RECURSIVE LexicographicalCompare(_, _, _, _, _)
LexicographicalCompare(a, na, b, nb, i) ==
    IF i >= na \/ i >= nb THEN i >= na /\ i < nb
    ELSE IF Slot(a, i) < Slot(b, i) THEN TRUE
    ELSE IF Slot(b, i) < Slot(a, i) THEN FALSE
    ELSE LexicographicalCompare(a, na, b, nb, i + 1)

\* operator<, operator>, operator<=, operator>=
Less(v1, v2) ==
    LexicographicalCompare(v1.entries.data, Size(v1), v2.entries.data, Size(v2), 0)
Greater(v1, v2) ==
    LexicographicalCompare(v2.entries.data, Size(v2), v1.entries.data, Size(v1), 0)
LessEq(v1, v2) == ~Less(v2, v1)
GreaterEq(v1, v2) == ~Less(v1, v2)

\* operator==, operator!=: the two pointers compared.
Equal(x, other) == x.entries.addr = other.entries.addr
NotEqual(x, other) == x.entries.addr # other.entries.addr

\* A returned Vector.
Returned(x) == [kind |-> "vector", size_ |-> x.size_, data |-> x.entries.data]

\* Vector::subvec(start, end)
Subvec(x, start, end, allocOk, live) ==
    IF start >= end \/ end > Size(x) THEN Throw("out_of_range")
    ELSE IF ~allocOk THEN Throw("bad_alloc")
    ELSE LET sub == SizedVector(end - start, live)
         IN Returned([sub EXCEPT !.entries.data =
                         StdCopy(x.entries.data, start, end, sub.entries.data, 0)])

\* concat(v1, v2)
Concat(v1, v2, allocOk, live) ==
    IF ~allocOk THEN Throw("bad_alloc")
    ELSE LET result == SizedVector(Size(v1) + Size(v2), live)
             first == StdCopy(v1.entries.data, 0, Size(v1), result.entries.data, 0)
             second == StdCopy(v2.entries.data, 0, Size(v2), first, Size(v1))
         IN Returned([result EXCEPT !.entries.data = second])

\* Vector::operator[](i), const and not, where slot i is in the buffer.
At(x, i) == IF i > Size(x) THEN Throw("out_of_range") ELSE Value(Slot(x.entries.data, i))

\* ------------------------------------------------------------- the calls
NoRT == [done |-> FALSE, before |-> << >>]

Running == ret.kind # "crash"

\* What the reads of [entries, entries + size_) see: the buffer, or, where
\* the buffer is shorter than size_, whatever lies there.
Views(x) ==
    IF Backed(x) THEN {x}
    ELSE {[x EXCEPT !.entries.data = g] : g \in [1..x.size_ -> Values]}

\* The call c on vecs[id] ended as r.  A vector without a buffer that was
\* given no new one still has none.
Commit(id, c, r, roundTrip) ==
    /\ vecs' = [vecs EXCEPT ![id] =
                   IF ~Backed(vecs[id]) /\ r.vec.entries.addr = 0
                   THEN [r.vec EXCEPT !.entries = NullPtr]
                   ELSE r.vec]
    /\ call' = c
    /\ ret' = r.ret
    /\ hazard' = r.hazard
    /\ pre' = vecs
    /\ rt' = roundTrip

\* The call c read or wrote outside every allocation and the process ended.
Crashes(c) ==
    /\ vecs' = vecs
    /\ call' = c
    /\ ret' = Crash
    /\ hazard' = FALSE
    /\ pre' = vecs
    /\ rt' = NoRT

\* The call either ends as one of the results rs, or, if it touches slots
\* the vector does not have, may end the process.
Outcome(id, c, rs, touches, roundTrip) ==
    \/ \E r \in rs : Commit(id, c, r, roundTrip)
    \/ ~Backed(vecs[id]) /\ touches /\ Crashes(c)

Insert(id, pos, value, allocOk) ==
    LET x == vecs[id]
        c == [name |-> "insert", id |-> id, pos |-> pos, value |-> value]
    IN /\ Running /\ x.alive
       /\ pos > Size(x) \/ Size(x) + 1 <= MaxLen
       /\ Outcome(id, c,
                  {InsertOne(xv, pos, value, allocOk, LiveAddrs(vecs)) : xv \in Views(x)},
                  pos <= Size(x) /\ allocOk, NoRT)

InsertN(id, pos, count, value, allocOk) ==
    LET x == vecs[id]
        c == [name |-> "insert_count", id |-> id, pos |-> pos, count |-> count,
              value |-> value]
    IN /\ Running /\ x.alive
       /\ pos > Size(x) \/ Size(x) + count <= MaxLen
       /\ Outcome(id, c,
                  {InsertCount(xv, pos, count, value, allocOk, LiveAddrs(vecs)) :
                       xv \in Views(x)},
                  pos <= Size(x) /\ count > 0 /\ allocOk, NoRT)

InsertR(id, pos, src, allocOk) ==
    LET x == vecs[id]
        c == [name |-> "insert_range", id |-> id, pos |-> pos, src |-> src]
    IN /\ Running /\ x.alive
       /\ pos > Size(x) \/ Size(x) + Len(src) <= MaxLen
       /\ Outcome(id, c,
                  {InsertRange(xv, pos, src, allocOk, LiveAddrs(vecs)) : xv \in Views(x)},
                  pos <= Size(x) /\ Len(src) > 0 /\ allocOk, NoRT)

Erase(id, pos, allocOk) ==
    LET x == vecs[id]
        c == [name |-> "erase", id |-> id, pos |-> pos]
        undoes == /\ call.name = "insert" /\ call.id = id /\ call.pos = pos
                  /\ ret.kind = "void" /\ Backed(pre[id])
    IN /\ Running /\ x.alive
       /\ \E r \in {EraseAt(xv, pos, allocOk, LiveAddrs(vecs)) : xv \in Views(x)} :
             \/ Commit(id, c, r,
                       IF undoes /\ r.ret.kind = "void"
                       THEN [done |-> TRUE, before |-> Elems(pre[id])]
                       ELSE NoRT)
             \/ ~Backed(x) /\ pos < Size(x) /\ Size(x) > 1 /\ Crashes(c)

EraseR(id, first, last, fill, allocOk) ==
    LET x == vecs[id]
        c == [name |-> "erase_range", id |-> id, first |-> first, last |-> last]
    IN /\ Running /\ x.alive
       /\ Outcome(id, c,
                  {EraseRange(xv, first, last, fill, allocOk, LiveAddrs(vecs)) :
                       xv \in Views(x)},
                  first < Size(x) /\ last <= Size(x) /\ first < last
                      /\ (last < Size(x) \/ (first > 0 /\ allocOk)),
                  NoRT)

ResizeTo(id, size, default_value, allocOk) ==
    LET x == vecs[id]
        c == [name |-> "resize", id |-> id, size |-> size, fill |-> default_value]
        res(xv) == LET r == Resize(xv, size, default_value, allocOk, LiveAddrs(vecs))
                   IN IF r.thrown THEN Failed(r.vec, "bad_alloc", FALSE)
                      ELSE Done(r.vec, FALSE)
    IN /\ Running /\ x.alive
       /\ Outcome(id, c, {res(xv) : xv \in Views(x)},
                  size # Size(x) /\ StdMin(Size(x), size) > 0 /\ allocOk, NoRT)

ClearV(id) ==
    LET x == vecs[id]
        c == [name |-> "clear", id |-> id]
    IN /\ Running /\ x.alive
       /\ Commit(id, c, Done(Clear(x), FALSE), NoRT)

\* The positions tried on a vector: every valid one, and those just past.
Positions(id) == 0..(Size(vecs[id]) + 1)

\* A call that assigns nothing to the Vector object ended with result.
Query(c, result) ==
    /\ vecs' = vecs
    /\ call' = c
    /\ ret' = result
    /\ hazard' = FALSE
    /\ pre' = vecs
    /\ rt' = NoRT

\* A Vector built elsewhere holding the elements s.
TempVector(s, live) ==
    [alive |-> TRUE, size_ |-> Len(s),
     entries |-> [addr |-> MakeUnique(0, live).addr, data |-> s]]

\* The right-hand operands tried with vecs[id]: itself, and short vectors
\* built elsewhere.
Operands(id) ==
    {vecs[id]} \cup {TempVector(s, LiveAddrs(vecs)) : s \in SeqsUpTo(MaxCount, InsValues)}

\* v[i].  With i = size() the check passes and entries[i] is a slot past the
\* end of the buffer: the read ends the process or yields whatever is there.
Index(id, i) ==
    LET x == vecs[id]
        c == [name |-> "index", id |-> id, i |-> i]
    IN /\ Running /\ x.alive /\ Backed(x)
       /\ IF i > Size(x) \/ i < Len(x.entries.data)
          THEN Query(c, At(x, i))
          ELSE \E out \in {Crash} \cup {Value(g) : g \in Values} : Query(c, out)

CallSum(id) ==
    /\ Running /\ vecs[id].alive /\ Backed(vecs[id])
    /\ Query([name |-> "sum", id |-> id], Value(Sum(vecs[id])))

CallProduct(id) ==
    /\ Running /\ vecs[id].alive /\ Backed(vecs[id])
    /\ Query([name |-> "product", id |-> id], Value(Product(vecs[id])))

CallMean(id) ==
    /\ Running /\ vecs[id].alive /\ Backed(vecs[id])
    /\ Query([name |-> "mean", id |-> id], Mean(vecs[id]))

CallMagnitude(id) ==
    /\ Running /\ vecs[id].alive /\ Backed(vecs[id])
    /\ Query([name |-> "magnitude", id |-> id], Magnitude(vecs[id]))

\* v.median(): nth_element reorders the buffer the const object points to.
CallMedian(id) ==
    LET x == vecs[id]
        c == [name |-> "median", id |-> id]
    IN /\ Running /\ x.alive /\ Backed(x)
       /\ IF Size(x) = 0
          THEN Query(c, Throw("length_error"))
          ELSE \E a \in NthElement(x.entries.data, x.size_ \div 2, x.size_) :
                  /\ vecs' = [vecs EXCEPT ![id].entries.data = a]
                  /\ call' = c
                  /\ ret' = Value(MedianOf(a, x.size_))
                  /\ hazard' = FALSE
                  /\ pre' = vecs
                  /\ rt' = NoRT

\* v.max() and v.min().  On an empty vector the scan stops at entries + 0,
\* which is null or one past a zero-length array; reading it ends the
\* process, or yields some value that the empty range holds zero times, and
\* the list of its positions, empty, is returned.
CallMax(id) ==
    LET x == vecs[id]
        c == [name |-> "max", id |-> id]
    IN /\ Running /\ x.alive /\ Backed(x)
       /\ IF Size(x) > 0 THEN Query(c, Max(x))
          ELSE \E out \in {Crash, Ties(<< >>)} : Query(c, out)

CallMin(id) ==
    LET x == vecs[id]
        c == [name |-> "min", id |-> id]
    IN /\ Running /\ x.alive /\ Backed(x)
       /\ IF Size(x) > 0 THEN Query(c, Min(x))
          ELSE \E out \in {Crash, Ties(<< >>)} : Query(c, out)

CallDot(id, other) ==
    /\ Running /\ vecs[id].alive /\ Backed(vecs[id])
    /\ Query([name |-> "dot_product", id |-> id], DotProduct(vecs[id], other))

CallSubvec(id, start, end, allocOk) ==
    /\ Running /\ vecs[id].alive /\ Backed(vecs[id])
    /\ Query([name |-> "subvec", id |-> id, start |-> start, end |-> end],
             Subvec(vecs[id], start, end, allocOk, LiveAddrs(vecs)))

CallConcat(id, other, allocOk) ==
    /\ Running /\ vecs[id].alive /\ Backed(vecs[id])
    /\ Size(vecs[id]) + Size(other) <= MaxLen
    /\ Query([name |-> "concat", id |-> id],
             Concat(vecs[id], other, allocOk, LiveAddrs(vecs) \cup {other.entries.addr}))

CallCompare(id, other) ==
    /\ Running /\ vecs[id].alive /\ Backed(vecs[id])
    /\ \/ Query([name |-> "less", id |-> id], Value(Less(vecs[id], other)))
       \/ Query([name |-> "greater", id |-> id], Value(Greater(vecs[id], other)))
       \/ Query([name |-> "less_eq", id |-> id], Value(LessEq(vecs[id], other)))
       \/ Query([name |-> "greater_eq", id |-> id], Value(GreaterEq(vecs[id], other)))

\* ---------------------------------------------------------- the queries
\* One vector, in any state the edits leave it in (a buffer of exactly
\* size_ elements, or no buffer and size 0), then queried.
InitQuery ==
    /\ \E s \in SeqsUpTo(MaxLen, Values), cleared \in BOOLEAN :
          /\ cleared => s = << >>
          /\ vecs = [id \in VecIds |->
                        IF id # "v" THEN NoObj
                        ELSE IF cleared THEN Clear(SizedVector(0, {}))
                        ELSE TempVector(s, {})]
    /\ call = [name |-> "edited", id |-> "v"]
    /\ ret = Void
    /\ pre = vecs
    /\ hazard = FALSE
    /\ rt = NoRT

NextQuery ==
    \/ \E i \in Positions("v") : Index("v", i)
    \/ CallSum("v")
    \/ CallProduct("v")
    \/ CallMean("v")
    \/ CallMagnitude("v")
    \/ CallMedian("v")
    \/ CallMax("v")
    \/ CallMin("v")
    \/ \E other \in Operands("v") : CallDot("v", other)
    \/ \E start \in Positions("v"), end \in Positions("v"), allocOk \in BOOLEAN :
          CallSubvec("v", start, end, allocOk)
    \/ \E other \in Operands("v"), allocOk \in BOOLEAN : CallConcat("v", other, allocOk)
    \/ \E other \in Operands("v") : CallCompare("v", other)

SpecQuery == InitQuery /\ [][NextQuery]_vars

\* ------------------------------------------------ the structural edits
\* One vector, built by Vector(n), then edited.
InitEdit ==
    /\ \E n \in 0..MaxLen :
          vecs = [id \in VecIds |-> IF id = "v" THEN SizedVector(n, {}) ELSE NoObj]
    /\ call = [name |-> "Vector", id |-> "v", size |-> Size(vecs["v"])]
    /\ ret = Void
    /\ pre = vecs
    /\ hazard = FALSE
    /\ rt = NoRT

NextEdit ==
    \/ \E pos \in Positions("v"), value \in InsValues, allocOk \in BOOLEAN :
          Insert("v", pos, value, allocOk)
    \/ \E pos \in Positions("v"), count \in 0..MaxCount, value \in InsValues,
          allocOk \in BOOLEAN :
          InsertN("v", pos, count, value, allocOk)
    \/ \E pos \in Positions("v"), src \in SeqsUpTo(MaxCount, InsValues),
          allocOk \in BOOLEAN :
          InsertR("v", pos, src, allocOk)
    \/ \E pos \in Positions("v"), allocOk \in BOOLEAN : Erase("v", pos, allocOk)
    \/ \E first \in Positions("v"), last \in Positions("v"), allocOk \in BOOLEAN :
          EraseR("v", first, last, DefaultT, allocOk)
    \/ \E size \in 0..MaxLen, fill \in InsValues, allocOk \in BOOLEAN :
          ResizeTo("v", size, fill, allocOk)
    \/ ClearV("v")

SpecEdit == InitEdit /\ [][NextEdit]_vars

\* ------------------------------------------------------- two objects
\* Vector x(size), for an object not yet constructed.
Construct(id, size, allocOk) ==
    LET c == [name |-> "Vector", id |-> id, size |-> size]
    IN /\ Running /\ ~vecs[id].alive
       /\ vecs' = [vecs EXCEPT ![id] =
                      IF allocOk THEN SizedVector(size, LiveAddrs(vecs)) ELSE @]
       /\ call' = c
       /\ ret' = IF allocOk THEN Void ELSE Throw("bad_alloc")
       /\ hazard' = FALSE
       /\ pre' = vecs
       /\ rt' = NoRT

\* Vector dst(std::move(src)): size_ is copied, entries is moved from.
MoveConstruct(dst, src) ==
    LET other == vecs[src]
        c == [name |-> "move", id |-> dst, from |-> src]
    IN /\ Running /\ ~vecs[dst].alive /\ other.alive /\ dst # src
       /\ vecs' = [vecs EXCEPT
                      ![dst] = [alive |-> TRUE, size_ |-> other.size_,
                                entries |-> other.entries],
                      ![src] = [other EXCEPT !.entries = NullPtr]]
       /\ call' = c
       /\ ret' = Void
       /\ hazard' = FALSE
       /\ pre' = vecs
       /\ rt' = NoRT

\* The object's lifetime ends; its unique_ptr frees the buffer.
Destroy(id) ==
    /\ Running /\ vecs[id].alive
    /\ vecs' = [vecs EXCEPT ![id] = NoObj]
    /\ call' = [name |-> "~Vector", id |-> id]
    /\ ret' = Void
    /\ hazard' = FALSE
    /\ pre' = vecs
    /\ rt' = NoRT

\* a == b and a != b
CallEqual(a, b) ==
    /\ Running /\ vecs[a].alive /\ vecs[b].alive
    /\ Query([name |-> "eq", id |-> a, other |-> b], Value(Equal(vecs[a], vecs[b])))

CallNotEqual(a, b) ==
    /\ Running /\ vecs[a].alive /\ vecs[b].alive
    /\ Query([name |-> "ne", id |-> a, other |-> b], Value(NotEqual(vecs[a], vecs[b])))

InitPair ==
    /\ \E n \in 0..MaxPair :
          vecs = [id \in VecIds |-> IF id = "v" THEN SizedVector(n, {}) ELSE NoObj]
    /\ call = [name |-> "Vector", id |-> "v", size |-> Size(vecs["v"])]
    /\ ret = Void
    /\ pre = vecs
    /\ hazard = FALSE
    /\ rt = NoRT

NextPair ==
    \/ \E id \in VecIds, size \in 0..MaxPair, allocOk \in BOOLEAN :
          Construct(id, size, allocOk)
    \/ \E dst \in VecIds, src \in VecIds : MoveConstruct(dst, src)
    \/ \E id \in VecIds : Destroy(id)
    \/ \E id \in VecIds, pos \in 0..MaxPair, value \in InsValues, allocOk \in BOOLEAN :
          Size(vecs[id]) < MaxPair /\ Insert(id, pos, value, allocOk)
    \/ \E id \in VecIds, pos \in 0..MaxPair, allocOk \in BOOLEAN : Erase(id, pos, allocOk)
    \/ \E id \in VecIds, size \in 0..MaxPair, fill \in InsValues, allocOk \in BOOLEAN :
          ResizeTo(id, size, fill, allocOk)
    \/ \E id \in VecIds : ClearV(id)
    \/ \E a \in VecIds, b \in VecIds : CallEqual(a, b)
    \/ \E a \in VecIds, b \in VecIds : CallNotEqual(a, b)

SpecPair == InitPair /\ [][NextPair]_vars

\* ---------------------------------------------------------- the claims
\* n copies of x.
Copies(n, x) == [i \in 1..n |-> x]

\* old with the elements ins placed before position pos.
Spliced(old, pos, ins) == SubSeq(old, 1, pos) \o ins \o SubSeq(old, pos + 1, Len(old))

\* old without the positions first..last-1.
Cut(old, first, last) == SubSeq(old, 1, first) \o SubSeq(old, last + 1, Len(old))

\* The abstract sequence after the edit c is applied to the sequence old.
AbstractAfter(c, old) ==
    CASE c.name = "insert" -> Spliced(old, c.pos, <<c.value>>)
      [] c.name = "insert_count" -> Spliced(old, c.pos, Copies(c.count, c.value))
      [] c.name = "insert_range" -> Spliced(old, c.pos, c.src)
      [] c.name = "erase" -> Cut(old, c.pos, c.pos + 1)
      [] c.name = "erase_range" -> Cut(old, c.first, c.last)
      [] c.name = "resize" ->
            SubSeq(old, 1, StdMin(Len(old), c.size))
                \o Copies(c.size - StdMin(Len(old), c.size), c.fill)
      [] c.name = "clear" -> << >>

EditNames ==
    {"insert", "insert_count", "insert_range", "erase", "erase_range", "resize", "clear"}

FallibleEdits == EditNames \ {"clear"}

QueryNames ==
    {"sum", "product", "mean", "median", "max", "min", "magnitude", "dot_product",
     "subvec", "concat", "less", "greater", "less_eq", "greater_eq"}

\* C1: insert(pos, x) followed by erase(pos), both returning, leaves the
\* vector with the size and the element at every position it had before the
\* two calls.
InsertEraseRoundTrip ==
    rt.done =>
        /\ Size(vecs[call.id]) = Len(rt.before)
        /\ Elems(vecs[call.id]) = rt.before

\* C1 witness: an element was inserted between two different elements and
\* erased again.
InsertEraseRoundTripReached ==
    /\ rt.done
    /\ call.pos > 0 /\ call.pos < Len(rt.before)
    /\ rt.before[call.pos] # rt.before[call.pos + 1]

FailedEditLeavesVector ==
    (call.name \in FallibleEdits /\ ret.kind = "throw") =>
        /\ Size(vecs[call.id]) = Size(pre[call.id])
        /\ Elems(vecs[call.id]) = Elems(pre[call.id])

\* C4: move construction gives the new vector the source's size and
\* elements and leaves the source with size 0 and no storage; and every
\* vector with size > 0 has storage holding exactly size elements.
MoveEmptiesSource ==
    /\ call.name = "move" =>
          /\ Size(vecs[call.id]) = Size(pre[call.from])
          /\ vecs[call.id].entries = pre[call.from].entries
          /\ Size(vecs[call.from]) = 0
          /\ vecs[call.from].entries = NullPtr
    /\ \A id \in VecIds :
          (vecs[id].alive /\ Size(vecs[id]) > 0) =>
              /\ vecs[id].entries.addr # 0
              /\ Len(vecs[id].entries.data) = Size(vecs[id])

\* C5: v[i] throws out_of_range for every i >= size(v) and returns the
\* element at position i for every i < size(v).
IndexingIsBoundsChecked ==
    call.name = "index" =>
        IF call.i >= Size(pre[call.id])
        THEN ret = Throw("out_of_range")
        ELSE ret = Value(Elems(pre[call.id])[call.i + 1])

\* Same size, and equal elements at every position.
StructurallyEqual(a, b) == Size(a) = Size(b) /\ Elems(a) = Elems(b)

\* C6: a == b is true exactly when a and b have the same size and equal
\* elements at every position, and a != b is its negation.
EqualityIsStructural ==
    (call.name \in {"eq", "ne"} /\ Backed(vecs[call.id]) /\ Backed(vecs[call.other])) =>
        ret.val = IF call.name = "eq"
                  THEN StructurallyEqual(vecs[call.id], vecs[call.other])
                  ELSE ~StructurallyEqual(vecs[call.id], vecs[call.other])

\* The positions of old holding its largest (smallest) value.
ExtremePositions(old, largest) ==
    {i \in 0..(Len(old) - 1) :
        \A j \in 0..(Len(old) - 1) :
            IF largest THEN Slot(old, j) <= Slot(old, i) ELSE Slot(old, i) <= Slot(old, j)}

ExtremumOfEmptyFails ==
    (call.name \in {"max", "min"} /\ Size(pre[call.id]) = 0) => ret.kind = "throw"

\* old in nondecreasing order.
Sorted(old) ==
    CHOOSE a \in {[i \in 1..Len(old) |-> old[p[i]]] : p \in Perms[Len(old)]} :
        \A i \in 1..(Len(old) - 1) : a[i] <= a[i + 1]

\* C9: median() of n > 0 elements returns the element at index n / 2 of the
\* sorted order when n is odd, and the average of those at n / 2 - 1 and
\* n / 2 when n is even, whatever arrangement the selection leaves.
MedianIsMiddleOfSorted ==
    (call.name = "median" /\ Size(pre[call.id]) > 0) =>
        LET s == Sorted(Elems(pre[call.id]))
            want == MedianOf(s, Len(s))
        IN /\ ret.kind = "value"
           /\ ret.val.num * want.den = want.num * ret.val.den

\* C10: a read-only query leaves the vector's size and the element at every
\* position as they were before the call.
QueriesLeaveVector ==
    call.name \in QueryNames =>
        /\ Size(vecs[call.id]) = Size(pre[call.id])
        /\ Elems(vecs[call.id]) = Elems(pre[call.id])

====
